---- MODULE Spec2Model ----
(***************************************************************************)
(* Model of the DWARF symbol extractor in src/src/main.rs: the depth-first *)
(* walk of one unit (dump_unit), the per-tag handlers, the attribute       *)
(* decoders and the location-expression evaluation loop.                   *)
(*                                                                         *)
(* 64-bit machine words are modelled exactly, as four 16-bit limbs in      *)
(* little-endian order (TLC integers are 32 bits wide).  A u64 and an i64  *)
(* share the bit pattern; an i64 is negative when its top limb has bit 15  *)
(* set.  Rust's `as u64` / `as i64` casts keep the bit pattern.            *)
(***************************************************************************)
EXTENDS Integers, Sequences, FiniteSets, TLC

VARIABLES walked, table, cursor, depth, status, error, encoding, attrIn, attrOp, attrOut, resumes

vars == <<walked, table, cursor, depth, status, error, encoding, attrIn, attrOp, attrOut, resumes>>

walkVars == <<walked, table, cursor, depth, status, error>>

attrVars == <<attrIn, attrOp, attrOut, resumes>>

(***************************************************************************)
(* Bounds of the model.                                                    *)
(***************************************************************************)
\* longest entry sequence the depth-first iterator yields in one walk
MaxEntries == 4

\* longest location expression (in operations) given to the evaluator
MaxOps == 2

(***************************************************************************)
(* 64-bit words.                                                           *)
(***************************************************************************)
Limb == 2^16

U64Lit(n) == <<n % Limb, (n \div Limb) % Limb, (n \div Limb) \div Limb, 0>>

Complement(w) == <<(Limb - 1) - w[1], (Limb - 1) - w[2], (Limb - 1) - w[3], (Limb - 1) - w[4]>>

\* the i64 with numeric value n (n within TLC's integer range)
I64Lit(n) == IF n >= 0 THEN U64Lit(n) ELSE Complement(U64Lit((-n) - 1))

I64Min == <<0, 0, 0, 32768>>

I64Max == <<65535, 65535, 65535, 32767>>

\* u64::wrapping_add
WrappingAdd(a, b) ==
    LET s1 == a[1] + b[1]
        s2 == a[2] + b[2] + (s1 \div Limb)
        s3 == a[3] + b[3] + (s2 \div Limb)
        s4 == a[4] + b[4] + (s3 \div Limb)
    IN  <<s1 % Limb, s2 % Limb, s3 % Limb, s4 % Limb>>

RECURSIVE BitAnd16(_, _, _)
BitAnd16(x, y, bits) ==
    IF bits = 0 THEN 0
    ELSE (IF x % 2 = 1 /\ y % 2 = 1 THEN 1 ELSE 0) + 2 * BitAnd16(x \div 2, y \div 2, bits - 1)

\* bitwise `&` of two u64
And64(a, m) == <<BitAnd16(a[1], m[1], 16), BitAnd16(a[2], m[2], 16),
                 BitAnd16(a[3], m[3], 16), BitAnd16(a[4], m[4], 16)>>

AllOnes == <<65535, 65535, 65535, 65535>>

\* gimli's address mask of an encoding: !0 for 8-byte addresses, else (1 << 8*size) - 1
AddrMask(address_size) ==
    IF address_size = 8 THEN AllOnes
    ELSE IF address_size = 4 THEN <<65535, 65535, 0, 0>>
    ELSE IF address_size = 2 THEN <<65535, 0, 0, 0>>
    ELSE <<255, 0, 0, 0>>

(***************************************************************************)
(* Option and Result values.                                               *)
(***************************************************************************)
None == <<>>

Some(v) == <<v>>

Ok(v) == [ok |-> TRUE, val |-> v]

Err(e) == [ok |-> FALSE, err |-> e]

\* a panic (failed unwrap) inside a function that otherwise returns a Result
Panic == [ok |-> FALSE, err |-> "panic"]

\* the symbol table before any insert (HashMap::new())
EmptyTable == [k \in {} |-> 0]

(***************************************************************************)
(* Attribute values (gimli::AttributeValue), uniform records.              *)
(***************************************************************************)
AttrValue(form, str, num, expr) == [form |-> form, str |-> str, num |-> num, expr |-> expr]

\* an inline string (DW_FORM_string), given by its raw bytes
String(raw) == AttrValue("String", raw, 0, <<>>)

\* an offset into .debug_str (DW_FORM_strp)
DebugStrRef(off) == AttrValue("DebugStrRef", "", off, <<>>)

\* a unit-local reference to another entry (DW_FORM_ref4)
UnitRef(off) == AttrValue("UnitRef", "", off, <<>>)

\* an unsigned constant (DW_FORM_udata)
Udata(n) == AttrValue("Udata", "", n, <<>>)

\* an offset into .debug_loclists (DW_FORM_sec_offset on DW_AT_location)
LocationListsRef(off) == AttrValue("LocationListsRef", "", off, <<>>)

\* a location expression (DW_FORM_exprloc), a sequence of operations
Exprloc(ops) == AttrValue("Exprloc", "", 0, ops)

(***************************************************************************)
(* Location expressions (gimli::Operation), uniform records.               *)
(***************************************************************************)
Operation(op, arg) == [op |-> op, arg |-> arg]

\* DW_OP_fbreg K
FrameOffset(offset) == Operation("FrameOffset", offset)

\* DW_OP_bregN K
RegisterOffset(offset) == Operation("RegisterOffset", offset)

\* DW_OP_regN
Register(n) == Operation("Register", U64Lit(n))

\* DW_OP_addr
Address(a) == Operation("Address", a)

\* DW_OP_constu
UnsignedConstant(v) == Operation("UnsignedConstant", v)

\* DW_OP_consts
SignedConstant(v) == Operation("SignedConstant", v)

\* DW_OP_plus_uconst
PlusConstant(v) == Operation("PlusConstant", v)

\* DW_OP_deref
Deref == Operation("Deref", U64Lit(0))

\* DW_OP_call_frame_cfa
CallFrameCFA == Operation("CallFrameCFA", U64Lit(0))

\* DW_OP_stack_value
StackValue == Operation("StackValue", U64Lit(0))

\* operations on which the machine stops and asks its caller for an input
\* that is not the frame base
OtherInputOps == {"RegisterOffset", "Address", "CallFrameCFA"}

(***************************************************************************)
(* gimli::Evaluation, as far as the handler drives it.                     *)
(***************************************************************************)
EvalState(state, pc, stack, value, offset) ==
    [state |-> state, pc |-> pc, stack |-> stack, value |-> value, offset |-> offset]

EvalError == EvalState("Error", 0, <<>>, None, U64Lit(0))

Top(stack) == stack[Len(stack)]

Pop(stack) == SubSeq(stack, 1, Len(stack) - 1)

\* Evaluation::evaluate_internal: run from operation pc until the machine
\* completes, fails, or needs an input.  `value` is Evaluation::value_result:
\* the top of the stack when the expression built no location piece, None
\* when it ended in a location-only operation.
RECURSIVE EvaluateInternal(_, _, _, _)
EvaluateInternal(expr, pc, stack, addr_mask) ==
    IF pc > Len(expr)
    THEN IF stack = <<>> THEN EvalError
         ELSE EvalState("Complete", pc, Pop(stack), Some(Top(stack)), U64Lit(0))
    ELSE LET o == expr[pc] IN
         CASE o.op = "FrameOffset" ->
                EvalState("RequiresFrameBase", pc + 1, stack, None, o.arg)
           [] o.op \in OtherInputOps ->
                EvalState("RequiresOther", pc + 1, stack, None, U64Lit(0))
           [] o.op = "Deref" ->
                IF stack = <<>> THEN EvalError
                ELSE EvalState("RequiresOther", pc + 1, Pop(stack), None, U64Lit(0))
           [] o.op \in {"UnsignedConstant", "SignedConstant"} ->
                EvaluateInternal(expr, pc + 1, Append(stack, o.arg), addr_mask)
           [] o.op = "PlusConstant" ->
                IF stack = <<>> THEN EvalError
                ELSE EvaluateInternal(expr, pc + 1,
                        Append(Pop(stack), And64(WrappingAdd(Top(stack), o.arg), addr_mask)),
                        addr_mask)
           [] o.op = "Register" ->
                IF pc = Len(expr)
                THEN EvalState("Complete", pc + 1, stack, None, U64Lit(0))
                ELSE EvalError
           [] o.op = "StackValue" ->
                IF stack = <<>> \/ pc # Len(expr) THEN EvalError
                ELSE EvalState("Complete", pc + 1, Pop(stack), None, U64Lit(0))
           [] OTHER -> EvalError

\* Evaluation::resume_with_frame_base: push frame_base + offset, run on
ResumeWithFrameBase(expr, waiting, frame_base, addr_mask) ==
    EvaluateInternal(expr, waiting.pc,
                     Append(waiting.stack, WrappingAdd(frame_base, waiting.offset)),
                     addr_mask)

\* Value::convert(ValueType::I64, addr_mask) of a generic value: mask, then `as i64`
ConvertI64(value, addr_mask) == And64(value, addr_mask)

\* the value the handler answers a frame-base request with (line 344)
FrameBase == U64Lit(0)

\* ConvertMask with the bug of converting with a 4-byte address mask
ConvertMaskNarrow == <<65535, 65535, 0, 0>>

\* the mask the handler converts the result with (line 328)
ConvertMask == AllOnes

\* the loop of dw_at_location_handler (lines 321-352), with the number of
\* times it went through the RequiresFrameBase arm
RECURSIVE LocationLoop(_, _, _, _)
LocationLoop(expr, result, addr_mask, n) ==
    CASE result.state = "Error" -> [res |-> Panic, resumes |-> n]
      [] result.state = "Complete" ->
            IF result.value = None THEN [res |-> Panic, resumes |-> n]
            ELSE [res |-> Ok(Some(ConvertI64(result.value[1], ConvertMask))), resumes |-> n]
      [] result.state = "RequiresFrameBase" ->
            LocationLoop(expr, ResumeWithFrameBase(expr, result, FrameBase, addr_mask),
                         addr_mask, n + 1)
      [] OTHER -> [res |-> Ok(None), resumes |-> n]

\* one run of dw_at_location_handler: its result and its resume count
LocationRun(address_size, value) ==
    IF value.form # "Exprloc" THEN [res |-> Panic, resumes |-> 0]
    ELSE LocationLoop(value.expr,
                      EvaluateInternal(value.expr, 1, <<>>, AddrMask(address_size)),
                      AddrMask(address_size), 0)

\* dw_at_location_handler(unit, attr): Ok(Some(offset)), Ok(None), or a panic
dw_at_location_handler(address_size, value) == LocationRun(address_size, value).res

(***************************************************************************)
(* String attributes.                                                      *)
(***************************************************************************)
\* the strings of .debug_str, by offset
DebugStrOffsets == {0, 5}

DebugStrAt(off) == IF off = 0 THEN "main" ELSE "int"

\* a raw string that is not valid UTF-8
InvalidUtf8 == "caf<E9>"

\* Reader::to_string_lossy: invalid sequences become U+FFFD
ToStringLossy(raw) == IF raw = InvalidUtf8 THEN "caf<FFFD>" ELSE raw

\* Dwarf::attr_string
attr_string(value) ==
    CASE value.form = "String" -> Ok(value.str)
      [] value.form = "DebugStrRef" ->
            IF value.num \in DebugStrOffsets THEN Ok(DebugStrAt(value.num))
            ELSE Err("UnexpectedEof")
      [] OTHER -> Err("ExpectedStringAttributeValue")

\* format!("{:?}", attr.value())
DebugFmt(value) ==
    CASE value.form = "String" -> "String(" \o value.str \o ")"
      [] value.form = "DebugStrRef" -> "DebugStrRef(DebugStrOffset(" \o ToString(value.num) \o "))"
      [] value.form = "UnitRef" -> "UnitRef(UnitOffset(" \o ToString(value.num) \o "))"
      [] value.form = "Udata" -> "Udata(" \o ToString(value.num) \o ")"
      [] value.form = "LocationListsRef" ->
            "LocationListsRef(LocationListsOffset(" \o ToString(value.num) \o "))"
      [] OTHER -> "Exprloc(Expression(" \o ToString(Len(value.expr)) \o " ops))"

\* dw_at_name_handler with the bug of returning attr_string's error
NameHandlerPropagating(value) ==
    IF attr_string(value).ok THEN Ok(ToStringLossy(attr_string(value).val))
    ELSE attr_string(value)

\* dw_at_name_handler(unit, attr)
dw_at_name_handler(value) ==
    IF attr_string(value).ok THEN Ok(ToStringLossy(attr_string(value).val))
    ELSE Ok(DebugFmt(value))

\* dw_at_type_handler with the bug of defaulting to 0 on another encoding
TypeHandlerDefaulting(value) ==
    IF value.form = "UnitRef" THEN Ok(value.num) ELSE Ok(0)

\* dw_at_type_handler(attr)
dw_at_type_handler(value) ==
    IF value.form = "UnitRef" THEN Ok(value.num) ELSE Err("UnsupportedOffset")

(***************************************************************************)
(* Inputs of the attribute-level specification.                            *)
(***************************************************************************)
\* address sizes of the unit encoding
AddressSizes == {4, 8}

\* frame offsets: small, negative, and the ends of the signed 64-bit range
Offsets == {I64Lit(0), I64Lit(16), I64Lit(-8), I64Lit(-1), I64Min, I64Max, <<0, 0, 1, 0>>}

Operations ==
    {FrameOffset(k) : k \in Offsets}
        \cup {RegisterOffset(I64Lit(-8)), Register(0), Address(U64Lit(4096)),
              UnsignedConstant(U64Lit(16)), SignedConstant(I64Lit(-8)),
              PlusConstant(U64Lit(8)), Deref, CallFrameCFA, StackValue}

RECURSIVE SeqsUpTo(_, _)
SeqsUpTo(S, n) ==
    IF n = 0 THEN {<<>>}
    ELSE LET shorter == SeqsUpTo(S, n - 1)
         IN  shorter \cup {Append(s, x) : s \in shorter, x \in S}

Expressions == SeqsUpTo(Operations, MaxOps) \ {<<>>}

AttrValues ==
    {String("foo"), String(InvalidUtf8), DebugStrRef(0), DebugStrRef(5), DebugStrRef(99),
     UnitRef(0), UnitRef(5), Udata(5), LocationListsRef(16)}
        \cup {Exprloc(e) : e \in Expressions}

(***************************************************************************)
(* The attribute-level specification: one attribute value of a unit with   *)
(* some encoding is given to one of the three attribute handlers.          *)
(***************************************************************************)
WalkInit ==
    /\ walked = <<>>
    /\ table = EmptyTable
    /\ cursor = None
    /\ depth = 0
    /\ status = "running"
    /\ error = "none"

AttrInit ==
    /\ WalkInit
    /\ encoding \in AddressSizes
    /\ attrIn \in AttrValues
    /\ attrOp = "none"
    /\ attrOut = Ok(0)
    /\ resumes = 0

ApplyName ==
    /\ attrOp = "none"
    /\ attrOp' = "name"
    /\ attrOut' = dw_at_name_handler(attrIn)
    /\ UNCHANGED <<walkVars, encoding, attrIn, resumes>>

ApplyType ==
    /\ attrOp = "none"
    /\ attrOp' = "type"
    /\ attrOut' = dw_at_type_handler(attrIn)
    /\ UNCHANGED <<walkVars, encoding, attrIn, resumes>>

ApplyLocation ==
    /\ attrOp = "none"
    /\ attrOp' = "location"
    /\ attrOut' = dw_at_location_handler(encoding, attrIn)
    /\ resumes' = LocationRun(encoding, attrIn).resumes
    /\ UNCHANGED <<walkVars, encoding, attrIn>>

AttrNext == ApplyName \/ ApplyType \/ ApplyLocation

SpecAttr == AttrInit /\ [][AttrNext]_vars

(***************************************************************************)
(* Entries and attributes of the unit, as the iterators yield them.        *)
(***************************************************************************)
Attr(name, value) == [name |-> name, value |-> value]

\* a debugging information entry: its tag, the attributes entry.attrs()
\* yields, and whether the attribute iterator then fails instead of ending
Entry(tag, attrs, attrsErr) == [tag |-> tag, attrs |-> attrs, attrsErr |-> attrsErr]

\* the error of a failing entries.next_dfs()
DfsError == "UnknownAbbreviation"

\* the error of a failing attrs.next()
AttrsError == "UnknownForm"

Variable(name, var_type, location) ==
    [name |-> name, var_type |-> var_type, location |-> location]

Subprogram(name, linkage_name, ret_type, variables) ==
    [name |-> name, linkage_name |-> linkage_name, ret_type |-> ret_type,
     variables |-> variables]

\* HashMap::insert
Insert(map, key, value) ==
    [k \in (DOMAIN map) \cup {key} |-> IF k = key THEN value ELSE map[k]]

(***************************************************************************)
(* The attribute loops of the handlers.  Each returns Ok(fields) after the *)
(* last attribute, or the first error (a panic included).                  *)
(***************************************************************************)
RECURSIVE SubprogramAttrs(_, _, _)
SubprogramAttrs(entry, i, acc) ==
    IF i > Len(entry.attrs)
    THEN IF entry.attrsErr THEN Err(AttrsError) ELSE Ok(acc)
    ELSE LET attr == entry.attrs[i] IN
         CASE attr.name = "DW_AT_name" ->
                LET r == dw_at_name_handler(attr.value)
                IN  IF r.ok THEN SubprogramAttrs(entry, i + 1, [acc EXCEPT !.name = r.val])
                    ELSE r
           [] attr.name = "DW_AT_linkage_name" ->
                LET r == dw_at_name_handler(attr.value)
                IN  IF r.ok
                    THEN SubprogramAttrs(entry, i + 1, [acc EXCEPT !.linkage_name = r.val])
                    ELSE r
           [] attr.name = "DW_AT_type" ->
                LET r == dw_at_type_handler(attr.value)
                IN  IF r.ok THEN SubprogramAttrs(entry, i + 1, [acc EXCEPT !.ret_type = r.val])
                    ELSE r
           [] OTHER -> SubprogramAttrs(entry, i + 1, acc)

RECURSIVE VariableAttrs(_, _, _, _)
VariableAttrs(address_size, entry, i, acc) ==
    IF i > Len(entry.attrs)
    THEN IF entry.attrsErr THEN Err(AttrsError) ELSE Ok(acc)
    ELSE LET attr == entry.attrs[i] IN
         CASE attr.name = "DW_AT_name" ->
                LET r == dw_at_name_handler(attr.value)
                IN  IF r.ok
                    THEN VariableAttrs(address_size, entry, i + 1, [acc EXCEPT !.name = r.val])
                    ELSE r
           [] attr.name = "DW_AT_type" ->
                LET r == dw_at_type_handler(attr.value)
                IN  IF r.ok
                    THEN VariableAttrs(address_size, entry, i + 1, [acc EXCEPT !.var_type = r.val])
                    ELSE r
           [] attr.name = "DW_AT_location" ->
                LET r == dw_at_location_handler(address_size, attr.value)
                IN  IF r.ok
                    THEN VariableAttrs(address_size, entry, i + 1, [acc EXCEPT !.location = r.val])
                    ELSE r
           [] OTHER -> VariableAttrs(address_size, entry, i + 1, acc)

RECURSIVE DefaultAttrs(_, _)
DefaultAttrs(entry, i) ==
    IF i > Len(entry.attrs)
    THEN IF entry.attrsErr THEN Err(AttrsError) ELSE Ok(0)
    ELSE LET r == dw_at_name_handler(entry.attrs[i].value)
         IN  IF r.ok THEN DefaultAttrs(entry, i + 1) ELSE r

(***************************************************************************)
(* The handlers, as the effect of one call on (SUBPROGRAM_MAP,             *)
(* CURRENT_SUBPROGRAM): [res, map, current].                               *)
(***************************************************************************)
Effect(res, map, current) == [res |-> res, map |-> map, current |-> current]

\* dw_tag_subprogram_handler with the bug of keeping the variables of a
\* record it replaces
SubprogramHandlerMerging(entry, map, current) ==
    LET r == SubprogramAttrs(entry, 1, Subprogram("", "", 0, <<>>))
    IN  IF ~r.ok THEN Effect(r, map, current)
        ELSE Effect(Ok(0),
                    Insert(map, r.val.linkage_name,
                           Subprogram(r.val.name, r.val.linkage_name, r.val.ret_type,
                                      IF r.val.linkage_name \in DOMAIN map
                                      THEN map[r.val.linkage_name].variables ELSE <<>>)),
                    Some(r.val.linkage_name))

\* dw_tag_subprogram_handler with the bug of a placeholder instead of the
\* empty string for an absent name
SubprogramHandlerPlaceholder(entry, map, current) ==
    LET r == SubprogramAttrs(entry, 1, Subprogram("<unknown>", "", 0, <<>>))
    IN  IF ~r.ok THEN Effect(r, map, current)
        ELSE Effect(Ok(0),
                    Insert(map, r.val.linkage_name,
                           Subprogram(r.val.name, r.val.linkage_name, r.val.ret_type, <<>>)),
                    Some(r.val.linkage_name))

\* dw_tag_subprogram_handler with the bug of pointing the cursor at the
\* name instead of the linkage name
SubprogramHandlerCursorByName(entry, map, current) ==
    LET r == SubprogramAttrs(entry, 1, Subprogram("", "", 0, <<>>))
    IN  IF ~r.ok THEN Effect(r, map, current)
        ELSE Effect(Ok(0),
                    Insert(map, r.val.linkage_name,
                           Subprogram(r.val.name, r.val.linkage_name, r.val.ret_type, <<>>)),
                    Some(r.val.name))

\* dw_tag_subprogram_handler with the bug of inserting the record before
\* the attributes are decoded
SubprogramHandlerEager(entry, map, current) ==
    LET r == SubprogramAttrs(entry, 1, Subprogram("", "", 0, <<>>))
    IN  IF ~r.ok THEN Effect(r, Insert(map, "", Subprogram("", "", 0, <<>>)), Some(""))
        ELSE Effect(Ok(0),
                    Insert(map, r.val.linkage_name,
                           Subprogram(r.val.name, r.val.linkage_name, r.val.ret_type, <<>>)),
                    Some(r.val.linkage_name))

dw_tag_subprogram_handler(entry, map, current) ==
    LET r == SubprogramAttrs(entry, 1, Subprogram("", "", 0, <<>>))
    IN  IF ~r.ok THEN Effect(r, map, current)
        ELSE Effect(Ok(0),
                    Insert(map, r.val.linkage_name,
                           Subprogram(r.val.name, r.val.linkage_name, r.val.ret_type, <<>>)),
                    Some(r.val.linkage_name))

\* dw_tag_variable_handler with the bug of pushing the variable to every
\* record of the map
VariableHandlerAttachAll(address_size, entry, map, current) ==
    LET r == VariableAttrs(address_size, entry, 1, Variable("", 0, None))
    IN  IF ~r.ok THEN Effect(r, map, current)
        ELSE IF current = None THEN Effect(Ok(0), map, current)
        ELSE Effect(Ok(0),
                    [k \in DOMAIN map |-> [map[k] EXCEPT !.variables = Append(@, r.val)]],
                    current)

\* dw_tag_variable_handler with the bug of keeping a variable met before
\* any subprogram, in a record of its own under the key ""
VariableHandlerKeepOrphan(address_size, entry, map, current) ==
    LET r == VariableAttrs(address_size, entry, 1, Variable("", 0, None))
    IN  IF ~r.ok THEN Effect(r, map, current)
        ELSE IF current = None
             THEN Effect(Ok(0), Insert(map, "", Subprogram("", "", 0, <<r.val>>)), current)
        ELSE IF current[1] \in DOMAIN map
             THEN Effect(Ok(0),
                         [map EXCEPT ![current[1]].variables = Append(@, r.val)],
                         current)
             ELSE Effect(Ok(0), map, current)

\* dw_tag_variable_handler with the bug of putting the new variable at the
\* front of the list
VariableHandlerPrepending(address_size, entry, map, current) ==
    LET r == VariableAttrs(address_size, entry, 1, Variable("", 0, None))
    IN  IF ~r.ok THEN Effect(r, map, current)
        ELSE IF current = None THEN Effect(Ok(0), map, current)
        ELSE IF current[1] \in DOMAIN map
             THEN Effect(Ok(0),
                         [map EXCEPT ![current[1]].variables = <<r.val>> \o @],
                         current)
             ELSE Effect(Ok(0), map, current)

dw_tag_variable_handler(address_size, entry, map, current) ==
    LET r == VariableAttrs(address_size, entry, 1, Variable("", 0, None))
    IN  IF ~r.ok THEN Effect(r, map, current)
        ELSE IF current = None THEN Effect(Ok(0), map, current)
        ELSE IF current[1] \in DOMAIN map
             THEN Effect(Ok(0),
                         [map EXCEPT ![current[1]].variables = Append(@, r.val)],
                         current)
             ELSE Effect(Ok(0), map, current)

\* dw_tag_default_handler with the bug of closing the open subprogram
DefaultHandlerClosing(entry, map, current) ==
    Effect(DefaultAttrs(entry, 1), map, None)

dw_tag_default_handler(entry, map, current) ==
    Effect(DefaultAttrs(entry, 1), map, current)

(***************************************************************************)
(* The entries of the walk-level specification.                            *)
(***************************************************************************)
SubFoo == Entry("DW_TAG_subprogram",
                <<Attr("DW_AT_linkage_name", String("foo")), Attr("DW_AT_name", String("foo"))>>,
                FALSE)

SubBar == Entry("DW_TAG_subprogram", <<Attr("DW_AT_linkage_name", String("bar"))>>, FALSE)

\* a second subprogram with the key "foo": name by a dangling .debug_str
\* offset, an attribute the handler does not know, a return type
SubFoo2 == Entry("DW_TAG_subprogram",
                 <<Attr("DW_AT_name", DebugStrRef(99)), Attr("DW_AT_decl_line", Udata(5)),
                   Attr("DW_AT_linkage_name", String("foo")), Attr("DW_AT_type", UnitRef(7))>>,
                 FALSE)

SubNoAttrs == Entry("DW_TAG_subprogram", <<>>, FALSE)

\* a return type that is not a unit-local reference
SubBadType == Entry("DW_TAG_subprogram",
                    <<Attr("DW_AT_linkage_name", String("bar")), Attr("DW_AT_type", Udata(5))>>,
                    FALSE)

SubAttrsErr == Entry("DW_TAG_subprogram", <<Attr("DW_AT_linkage_name", String("bar"))>>, TRUE)

VarX == Entry("DW_TAG_variable",
              <<Attr("DW_AT_name", String("x")), Attr("DW_AT_type", UnitRef(5)),
                Attr("DW_AT_location", Exprloc(<<FrameOffset(I64Lit(-8))>>))>>,
              FALSE)

VarY == Entry("DW_TAG_variable", <<Attr("DW_AT_name", String("y"))>>, FALSE)

\* a variable whose location needs a register's contents (DW_OP_breg)
VarBreg == Entry("DW_TAG_variable",
                 <<Attr("DW_AT_name", String("b")),
                   Attr("DW_AT_location", Exprloc(<<RegisterOffset(I64Lit(-8))>>)),
                   Attr("DW_AT_type", UnitRef(5))>>,
                 FALSE)

\* a variable that lives in a register (DW_OP_reg)
VarReg == Entry("DW_TAG_variable",
                <<Attr("DW_AT_name", String("r")),
                  Attr("DW_AT_location", Exprloc(<<Register(0)>>))>>,
                FALSE)

\* a variable whose location is a location list
VarLocList == Entry("DW_TAG_variable",
                    <<Attr("DW_AT_name", String("l")),
                      Attr("DW_AT_location", LocationListsRef(16))>>,
                    FALSE)

VarBadType == Entry("DW_TAG_variable",
                    <<Attr("DW_AT_name", String("t")), Attr("DW_AT_type", Udata(5))>>,
                    FALSE)

VarAttrsErr == Entry("DW_TAG_variable", <<Attr("DW_AT_name", String("e"))>>, TRUE)

BaseType == Entry("DW_TAG_base_type",
                  <<Attr("DW_AT_name", DebugStrRef(5)), Attr("DW_AT_byte_size", Udata(4))>>,
                  FALSE)

OtherAttrsErr == Entry("DW_TAG_lexical_block", <<>>, TRUE)

SubprogramEntries == {SubFoo, SubBar, SubFoo2, SubNoAttrs, SubBadType, SubAttrsErr}

VariableEntries == {VarX, VarY, VarBreg, VarReg, VarLocList, VarBadType, VarAttrsErr}

OtherEntries == {BaseType, OtherAttrsErr}

\* depth deltas of next_dfs: 0 for the root, then at most one level down
\* and any number of levels up, never above the root's children
Deltas == IF walked = <<>> THEN {0} ELSE {d \in -2..1 : depth + d >= 1}

(***************************************************************************)
(* dump_unit: one action per way an iteration of the loop can go.          *)
(***************************************************************************)
Init ==
    /\ WalkInit
    /\ encoding \in AddressSizes
    /\ attrIn = String("")
    /\ attrOp = "none"
    /\ attrOut = Ok(0)
    /\ resumes = 0

\* Dispatch with the bug of closing the function when the walk's depth
\* goes up: the cursor is unset on a negative depth delta
DispatchClearingOnExit(entry, delta, eff) ==
    /\ walked' = Append(walked, entry)
    /\ depth' = depth + delta
    /\ table' = eff.map
    /\ cursor' = IF delta < 0 THEN None ELSE eff.current
    /\ status' = IF eff.res.ok THEN "running"
                 ELSE IF eff.res.err = "panic" THEN "panic" ELSE "err"
    /\ error' = IF eff.res.ok THEN "none" ELSE eff.res.err
    /\ UNCHANGED <<encoding, attrVars>>

\* Dispatch with the bug of skipping the entry: it is pulled from the
\* iterator and what its handler did is dropped
DispatchSkipping(entry, delta, eff) ==
    /\ walked' = Append(walked, entry)
    /\ depth' = depth + delta
    /\ UNCHANGED <<table, cursor, status, error, encoding, attrVars>>

\* the state after a handler returned `eff` for the entry just yielded
Dispatch(entry, delta, eff) ==
    /\ walked' = Append(walked, entry)
    /\ depth' = depth + delta
    /\ table' = eff.map
    /\ cursor' = eff.current
    /\ status' = IF eff.res.ok THEN "running"
                 ELSE IF eff.res.err = "panic" THEN "panic" ELSE "err"
    /\ error' = IF eff.res.ok THEN "none" ELSE eff.res.err
    /\ UNCHANGED <<encoding, attrVars>>

\* CanPull with the bug of going on with the loop after an error
CanPullAfterError == Len(walked) < MaxEntries

\* the loop of dump_unit asks for the next entry (line 153)
CanPull == status = "running" /\ Len(walked) < MaxEntries

VisitSubprogram ==
    /\ CanPull
    /\ \E entry \in SubprogramEntries, delta \in Deltas :
          Dispatch(entry, delta, dw_tag_subprogram_handler(entry, table, cursor))

VisitVariable ==
    /\ CanPull
    /\ \E entry \in VariableEntries, delta \in Deltas :
          Dispatch(entry, delta, dw_tag_variable_handler(encoding, entry, table, cursor))

VisitOther ==
    /\ CanPull
    /\ \E entry \in OtherEntries, delta \in Deltas :
          Dispatch(entry, delta, dw_tag_default_handler(entry, table, cursor))

\* entries.next_dfs() fails: dump_unit returns the error
NextDfsFails ==
    /\ status = "running"
    /\ status' = "err"
    /\ error' = DfsError
    /\ UNCHANGED <<walked, table, cursor, depth, encoding, attrVars>>

\* entries.next_dfs() returns None: dump_unit returns Ok(())
NextDfsEnds ==
    /\ status = "running"
    /\ status' = "ok"
    /\ UNCHANGED <<walked, table, cursor, depth, error, encoding, attrVars>>

Next == VisitSubprogram \/ VisitVariable \/ VisitOther \/ NextDfsFails \/ NextDfsEnds

Spec == Init /\ [][Next]_vars

(***************************************************************************)
(* What the walk is expected to have built, read off the entry sequence.   *)
(***************************************************************************)
IsSub(entry) == entry.tag = "DW_TAG_subprogram"

IsVar(entry) == entry.tag = "DW_TAG_variable"

Max(S) == CHOOSE x \in S : \A y \in S : y <= x

Min(S) == CHOOSE x \in S : \A y \in S : x <= y

Last(seq) == seq[Len(seq)]

Front(seq) == SubSeq(seq, 1, Len(seq) - 1)

\* the value of the last attribute of the entry with this name, if any
LastAttr(entry, name) ==
    LET idx == {i \in 1..Len(entry.attrs) : entry.attrs[i].name = name}
    IN  IF idx = {} THEN None ELSE Some(entry.attrs[Max(idx)].value)

NameOf(entry) ==
    LET a == LastAttr(entry, "DW_AT_name")
    IN  IF a = None THEN "" ELSE dw_at_name_handler(a[1]).val

LinkageOf(entry) ==
    LET a == LastAttr(entry, "DW_AT_linkage_name")
    IN  IF a = None THEN "" ELSE dw_at_name_handler(a[1]).val

TypeOf(entry) ==
    LET a == LastAttr(entry, "DW_AT_type")
    IN  IF a = None THEN 0 ELSE dw_at_type_handler(a[1]).val

LocationOf(address_size, entry) ==
    LET a == LastAttr(entry, "DW_AT_location")
    IN  IF a = None THEN None ELSE dw_at_location_handler(address_size, a[1]).val

VarOf(address_size, entry) ==
    Variable(NameOf(entry), TypeOf(entry), LocationOf(address_size, entry))

\* every attribute of the entry decodes: the handler of the entry returns Ok
AttrsDecode(address_size, entry) ==
    /\ ~entry.attrsErr
    /\ \A i \in 1..Len(entry.attrs) :
          /\ entry.attrs[i].name = "DW_AT_type" => dw_at_type_handler(entry.attrs[i].value).ok
          /\ (IsVar(entry) /\ entry.attrs[i].name = "DW_AT_location")
                => dw_at_location_handler(address_size, entry.attrs[i].value).ok

\* the entries whose handler returned Ok, in order
Processed ==
    IF status \in {"err", "panic"} /\ error # DfsError THEN Front(walked) ELSE walked

SubIndexes(w) == {i \in 1..Len(w) : IsSub(w[i])}

\* the variables between subprogram entry i and the next subprogram entry
VarsAfter(address_size, w, i) ==
    LET next == Min({j \in SubIndexes(w) : j > i} \cup {Len(w) + 1})
        seg  == SelectSeq(SubSeq(w, i + 1, next - 1), IsVar)
    IN  [j \in 1..Len(seg) |-> VarOf(address_size, seg[j])]

\* the table the entry sequence w stands for
RefTable(address_size, w) ==
    [k \in {LinkageOf(w[i]) : i \in SubIndexes(w)} |->
        LET last == Max({i \in SubIndexes(w) : LinkageOf(w[i]) = k})
        IN  Subprogram(NameOf(w[last]), k, TypeOf(w[last]), VarsAfter(address_size, w, last))]

(***************************************************************************)
(* C1 - Attribution.                                                       *)
(***************************************************************************)
AttributionStep ==
    (/\ walked' # walked
     /\ IsVar(Last(walked'))
     /\ status' = "running"
     /\ SubIndexes(walked) # {})
        => LET k == LinkageOf(walked[Max(SubIndexes(walked))])
               v == VarOf(encoding, Last(walked'))
           IN  /\ k \in DOMAIN table
               /\ DOMAIN table' = DOMAIN table
               /\ table'[k] = [table[k] EXCEPT !.variables = Append(@, v)]
               /\ \A other \in (DOMAIN table) \ {k} : table'[other] = table[other]

ScenarioTable ==
    [k \in {"foo", "bar"} |->
        IF k = "foo"
        THEN Subprogram("foo", "foo", 0, <<Variable("x", 5, Some(I64Lit(-8)))>>)
        ELSE Subprogram("", "bar", 0, <<>>)]

AttributionScenario == (walked = <<SubFoo, VarX, SubBar>>) => (table = ScenarioTable)

\* C1: every variable entry handled after a subprogram entry S and before
\* the next subprogram entry adds its Variable to the record under S's
\* linkage name and changes no other record; the walk of
\* [Subprogram(foo), Variable(x, 5, -8), Subprogram(bar)] builds
\* foo: [x], bar: [].
C1_Attribution == [][AttributionStep]_vars /\ []AttributionScenario

C1_Witness ==
    /\ walked = <<SubFoo, VarX, SubBar>>
    /\ status = "running"
    /\ table["foo"].variables = <<Variable("x", 5, Some(I64Lit(-8)))>>

(***************************************************************************)
(* C2 - Last write wins.                                                   *)
(***************************************************************************)
LastWriteWinsStep ==
    (/\ walked' # walked
     /\ IsSub(Last(walked'))
     /\ status' = "running"
     /\ LinkageOf(Last(walked')) \in DOMAIN table)
        => LET e == Last(walked')
               k == LinkageOf(e)
           IN  /\ DOMAIN table' = DOMAIN table
               /\ table'[k] = Subprogram(NameOf(e), k, TypeOf(e), <<>>)
               /\ \A other \in (DOMAIN table) \ {k} : table'[other] = table[other]

LastWriteWinsTable == table = RefTable(encoding, Processed)

\* C2: a subprogram entry whose linkage name is already a key replaces the
\* record under it by one with the later entry's name and return type and no
\* variables, and the table always holds, per key, the attributes of the last
\* entry with that key and the variables met after it.
C2_LastWriteWins == [][LastWriteWinsStep]_vars /\ []LastWriteWinsTable

C2_Witness ==
    /\ walked = <<SubFoo, VarX, SubFoo2, VarY>>
    /\ status = "running"
    /\ DOMAIN table = {"foo"}
    /\ table["foo"] = Subprogram("DebugStrRef(DebugStrOffset(99))", "foo", 7,
                                 <<Variable("y", 0, None)>>)

(***************************************************************************)
(* C3 - Orphan drop.                                                       *)
(***************************************************************************)
OrphanStep ==
    (/\ walked' # walked
     /\ IsVar(Last(walked'))
     /\ cursor = None)
        => /\ table' = table
           /\ cursor' = None
           /\ AttrsDecode(encoding, Last(walked')) => status' = "running"

\* the entries from the first subprogram entry on
FromFirstSub(w) ==
    IF SubIndexes(w) = {} THEN <<>> ELSE SubSeq(w, Min(SubIndexes(w)), Len(w))

OrphanInv ==
    /\ SubIndexes(Processed) = {} => (table = EmptyTable /\ cursor = None)
    /\ table = RefTable(encoding, FromFirstSub(Processed))

\* C3: a variable entry handled while current_subprogram is unset leaves the
\* table and the cursor as they were and, when its attributes decode, is no
\* error; the table never holds anything of the entries before the first
\* subprogram entry.
C3_OrphanDrop == [][OrphanStep]_vars /\ []OrphanInv

C3_Witness ==
    /\ walked = <<VarX, SubFoo, VarY>>
    /\ status = "running"
    /\ table["foo"].variables = <<Variable("y", 0, None)>>

(***************************************************************************)
(* C4 - Frame-relative offset.                                             *)
(***************************************************************************)
\* C4: for an expression that is a single `frame base + K`, in a unit of
\* either address size, the handler asks for the frame base once and returns
\* Some(K), the 64-bit K itself.
C4_FrameRelativeOffset ==
    (/\ attrOp = "location"
     /\ attrIn.form = "Exprloc"
     /\ Len(attrIn.expr) = 1
     /\ attrIn.expr[1].op = "FrameOffset")
        => /\ attrOut.ok
           /\ attrOut.val = Some(attrIn.expr[1].arg)
           /\ resumes = 1

C4_Witness ==
    /\ attrOp = "location"
    /\ encoding = 4
    /\ attrIn = Exprloc(<<FrameOffset(I64Min)>>)
    /\ attrOut = Ok(Some(I64Min))

(***************************************************************************)
(* C5 - Non-static locations are not errors.                               *)
(***************************************************************************)
\* the location attribute of the entry is an expression on which the
\* machine asks for an input other than the frame base, or completes with a
\* location (a register, a value piece) instead of an integer on the stack
NonStaticLocation(address_size, entry) ==
    LET a == LastAttr(entry, "DW_AT_location")
    IN  /\ a # None
        /\ a[1].form = "Exprloc"
        /\ LET r == EvaluateInternal(a[1].expr, 1, <<>>, AddrMask(address_size))
           IN  \/ r.state = "RequiresOther"
               \/ r.state = "Complete" /\ r.value = None

\* the walk did not stop at its last entry
LastEntryHandled == status \in {"running", "ok"} \/ (status = "err" /\ error = DfsError)

\* C5: a variable entry whose location expression needs an input other than
\* the frame base, or completes with a result that is no integer, is handled
\* without error or panic and recorded with location None.
C5_NonStaticLocation ==
    (/\ walked # <<>>
     /\ IsVar(Last(walked))
     /\ NonStaticLocation(encoding, Last(walked)))
        => /\ LastEntryHandled
           /\ cursor # None => Last(table[cursor[1]].variables).location = None

(***************************************************************************)
(* C6 - Location attribute that is not an expression.                      *)
(***************************************************************************)
NonExpressionLocation(entry) ==
    LET a == LastAttr(entry, "DW_AT_location")
    IN  a # None /\ a[1].form # "Exprloc"

\* C6: a variable entry whose location attribute is no location expression
\* (a location list, a constant) is handled without error or panic and
\* recorded with location None.
C6_NonExpressionLocation ==
    (/\ walked # <<>>
     /\ IsVar(Last(walked))
     /\ NonExpressionLocation(Last(walked)))
        => /\ LastEntryHandled
           /\ cursor # None => Last(table[cursor[1]].variables).location = None

(***************************************************************************)
(* C7 - Decoder fallback.                                                  *)
(***************************************************************************)
\* string resolution succeeds on this value
Resolvable(value) ==
    \/ value.form = "String"
    \/ value.form = "DebugStrRef" /\ value.num \in DebugStrOffsets

\* C7: name decoding returns Ok for every attribute value, and the debug
\* rendering of the value when the value does not resolve to a string.
C7_DecoderFallback ==
    attrOp = "name"
        => /\ attrOut.ok
           /\ ~Resolvable(attrIn) => attrOut.val = DebugFmt(attrIn)

C7_Witness ==
    /\ attrOp = "name"
    /\ attrIn = DebugStrRef(99)
    /\ attrOut = Ok("DebugStrRef(DebugStrOffset(99))")

(***************************************************************************)
(* C8 - Recoverable type encoding.                                         *)
(***************************************************************************)
\* a subprogram or variable entry with a type attribute that is no
\* unit-local reference, and nothing else that fails
OnlyTypeFails(address_size, entry) ==
    /\ IsSub(entry) \/ IsVar(entry)
    /\ ~entry.attrsErr
    /\ \E i \in 1..Len(entry.attrs) :
          entry.attrs[i].name = "DW_AT_type" /\ entry.attrs[i].value.form # "UnitRef"
    /\ \A i \in 1..Len(entry.attrs) :
          (IsVar(entry) /\ entry.attrs[i].name = "DW_AT_location")
              => dw_at_location_handler(address_size, entry.attrs[i].value).ok

\* C8: an entry with a type attribute of another encoding than a unit-local
\* reference does not abort the walk, and the entry is recorded.
C8_RecoverableTypeEncoding ==
    (walked # <<>> /\ OnlyTypeFails(encoding, Last(walked)))
        => /\ LastEntryHandled
           /\ IsSub(Last(walked)) => LinkageOf(Last(walked)) \in DOMAIN table

(***************************************************************************)
(* C9 - decode_type_ref.                                                   *)
(***************************************************************************)
\* C9: the type handler returns the offset exactly for a unit-local
\* reference and the error UnsupportedOffset for every other encoding.
C9_TypeRef ==
    attrOp = "type"
        => IF attrIn.form = "UnitRef"
           THEN attrOut.ok /\ attrOut.val = attrIn.num
           ELSE ~attrOut.ok /\ attrOut.err = "UnsupportedOffset"

C9_Witness ==
    /\ attrOp = "type"
    /\ attrIn = Udata(5)
    /\ ~attrOut.ok
    /\ attrOut.err = "UnsupportedOffset"

(***************************************************************************)
(* C10 - Abort on tree failure.                                            *)
(***************************************************************************)
AbortStep ==
    /\ status = "running"
    /\ (status' = "err" /\ error' = DfsError) => UNCHANGED <<walked, table, cursor>>

TableAtFailure ==
    (status = "err" /\ error = DfsError)
        => /\ table = RefTable(encoding, walked)
           /\ \A i \in 1..Len(walked) : AttrsDecode(encoding, walked[i])

\* C10: when next_dfs fails the walk ends with that error in the same step,
\* nothing is handled afterwards (every step of the walk starts from a
\* running walk), and the table is the one built from the entries before.
C10_AbortOnTreeFailure == [][AbortStep]_vars /\ []TableAtFailure

C10_Witness ==
    /\ status = "err"
    /\ error = DfsError
    /\ walked = <<SubFoo, VarX>>
    /\ table["foo"].variables = <<Variable("x", 5, Some(I64Lit(-8)))>>

(***************************************************************************)
(* C11 - Bounded evaluation.                                               *)
(***************************************************************************)
\* the number of times the expression makes the machine ask for the frame
\* base when every request is answered
FrameRequests(expr) ==
    Cardinality({i \in 1..Len(expr) : expr[i].op = "FrameOffset"})

\* a fixed bound on the resume iterations, below the number of operations
\* an expression can hold
ResumeBound == MaxOps - 1

\* C11: the handler resumes the machine at most a fixed number of times, and
\* an expression that asks for the frame base more often than that bound
\* yields None.
C11_BoundedEvaluation ==
    (attrOp = "location" /\ attrIn.form = "Exprloc")
        => /\ resumes <= ResumeBound
           /\ FrameRequests(attrIn.expr) > ResumeBound => (attrOut.ok /\ attrOut.val = None)

(***************************************************************************)
(* C12 - Cursor persistence.                                               *)
(***************************************************************************)
\* the cursor changes only in a step that handles a subprogram entry, which
\* sets it to the entry's linkage name
CursorStep ==
    /\ cursor' # cursor
          => (walked' # walked /\ IsSub(Last(walked')) /\ status' = "running")
    /\ (walked' # walked /\ IsSub(Last(walked')) /\ status' = "running")
          => cursor' = Some(LinkageOf(Last(walked')))

\* a variable met right after a subprogram entry, at the subprogram's own
\* depth or above it (outside the function), still goes to that subprogram
OutsideStep ==
    (/\ walked # <<>>
     /\ IsSub(Last(walked))
     /\ walked' # walked
     /\ IsVar(Last(walked'))
     /\ status' = "running"
     /\ depth' <= depth)
        => table'[LinkageOf(Last(walked))].variables
              = <<VarOf(encoding, Last(walked'))>>

\* cursor and table are determined by the entries alone, whatever the depths
CursorOfEntries ==
    /\ cursor = IF SubIndexes(Processed) = {} THEN None
                ELSE Some(LinkageOf(Processed[Max(SubIndexes(Processed))]))
    /\ table = RefTable(encoding, Processed)

\* C12: current_subprogram is written only by a handled subprogram entry (to
\* its linkage name, "" included); other entries and depth deltas leave it
\* alone, a variable met at or above the last subprogram's depth is attached
\* to that subprogram, and cursor and table depend on the entries only.
C12_CursorPersistence == [][CursorStep /\ OutsideStep]_vars /\ []CursorOfEntries

C12_Witness ==
    /\ walked = <<BaseType, BaseType, SubNoAttrs, VarX>>
    /\ depth = 1
    /\ cursor = Some("")
    /\ table[""].variables = <<Variable("x", 5, Some(I64Lit(-8)))>>

(***************************************************************************)
(* The entry-level specification: one subprogram or variable entry, with   *)
(* any subset of the attributes its handler knows and possibly one it does *)
(* not know, is given to its handler in a state of the map and the cursor. *)
(***************************************************************************)
Opt(attr) == {<<>>, <<attr>>}

\* attributes the handlers do not match on
Unrecognised ==
    {<<>>, <<Attr("DW_AT_decl_line", Udata(5))>>, <<Attr("DW_AT_specification", UnitRef(9))>>}

SubInputs ==
    {Entry("DW_TAG_subprogram", n \o u \o l \o t, FALSE) :
        n \in Opt(Attr("DW_AT_name", DebugStrRef(0))),
        u \in Unrecognised,
        l \in Opt(Attr("DW_AT_linkage_name", String("foo"))),
        t \in Opt(Attr("DW_AT_type", UnitRef(7)))}

VarInputs ==
    {Entry("DW_TAG_variable", n \o t \o u \o l, FALSE) :
        n \in Opt(Attr("DW_AT_name", String("x"))),
        t \in Opt(Attr("DW_AT_type", UnitRef(5))),
        u \in Unrecognised,
        l \in Opt(Attr("DW_AT_location", Exprloc(<<FrameOffset(I64Lit(-8))>>)))}

\* states of (SUBPROGRAM_MAP, CURRENT_SUBPROGRAM): before any subprogram
\* entry, and after one with the key "foo" and one variable
HandlerStates ==
    {[map |-> EmptyTable, current |-> None],
     [map |-> Insert(EmptyTable, "foo",
                     Subprogram("foo", "foo", 0, <<Variable("y", 0, None)>>)),
      current |-> Some("foo")]}

HandlerInputs ==
    {[entry |-> e, map |-> s.map, current |-> s.current] :
        e \in SubInputs \cup VarInputs, s \in HandlerStates}

EntryInit ==
    /\ WalkInit
    /\ encoding \in AddressSizes
    /\ attrIn \in HandlerInputs
    /\ attrOp = "none"
    /\ attrOut = Ok(0)
    /\ resumes = 0

ApplySubprogramHandler ==
    /\ attrOp = "none"
    /\ attrIn.entry.tag = "DW_TAG_subprogram"
    /\ attrOp' = "subprogram"
    /\ attrOut' = dw_tag_subprogram_handler(attrIn.entry, attrIn.map, attrIn.current)
    /\ UNCHANGED <<walkVars, encoding, attrIn, resumes>>

ApplyVariableHandler ==
    /\ attrOp = "none"
    /\ attrIn.entry.tag = "DW_TAG_variable"
    /\ attrOp' = "variable"
    /\ attrOut' = dw_tag_variable_handler(encoding, attrIn.entry, attrIn.map, attrIn.current)
    /\ UNCHANGED <<walkVars, encoding, attrIn, resumes>>

EntryNext == ApplySubprogramHandler \/ ApplyVariableHandler

SpecEntry == EntryInit /\ [][EntryNext]_vars

(***************************************************************************)
(* C13 - Defaults for absent attributes.                                   *)
(***************************************************************************)
Has(entry, name) == \E i \in 1..Len(entry.attrs) : entry.attrs[i].name = name

\* the entry without the attributes its handler does not match on
Recognised(entry) ==
    [entry EXCEPT !.attrs =
        SelectSeq(entry.attrs,
                  LAMBDA a : a.name \in {"DW_AT_name", "DW_AT_linkage_name",
                                         "DW_AT_type", "DW_AT_location"})]

SubprogramDefaults ==
    attrOp = "subprogram"
        => /\ attrOut.res.ok
           /\ attrOut.current # None
           /\ attrOut.current[1] \in DOMAIN attrOut.map
           /\ LET e   == attrIn.entry
                  rec == attrOut.map[attrOut.current[1]]
              IN  /\ ~Has(e, "DW_AT_name") => rec.name = ""
                  /\ ~Has(e, "DW_AT_linkage_name")
                        => (rec.linkage_name = "" /\ attrOut.current = Some(""))
                  /\ ~Has(e, "DW_AT_type") => rec.ret_type = 0
                  /\ attrOut = dw_tag_subprogram_handler(Recognised(e), attrIn.map,
                                                         attrIn.current)

VariableDefaults ==
    (attrOp = "variable" /\ attrIn.current # None)
        => /\ attrOut.res.ok
           /\ LET e == attrIn.entry
                  v == Last(attrOut.map[attrIn.current[1]].variables)
              IN  /\ Len(attrOut.map[attrIn.current[1]].variables)
                        = Len(attrIn.map[attrIn.current[1]].variables) + 1
                  /\ ~Has(e, "DW_AT_name") => v.name = ""
                  /\ ~Has(e, "DW_AT_type") => v.var_type = 0
                  /\ ~Has(e, "DW_AT_location") => v.location = None
                  /\ attrOut = dw_tag_variable_handler(encoding, Recognised(e), attrIn.map,
                                                       attrIn.current)

\* C13: a subprogram entry is recorded with name "", linkage name "" (under
\* the key "") and return type 0 for the attributes it lacks, a variable
\* entry with name "", type 0 and location None; attributes of other names
\* change nothing of what is recorded.
C13_Defaults == SubprogramDefaults /\ VariableDefaults

C13_Witness ==
    /\ attrOp = "subprogram"
    /\ attrIn.entry = Entry("DW_TAG_subprogram",
                            <<Attr("DW_AT_specification", UnitRef(9))>>, FALSE)
    /\ attrIn.current = Some("foo")
    /\ attrOut.current = Some("")
    /\ attrOut.map[""] = Subprogram("", "", 0, <<>>)

(***************************************************************************)
(* C14 - Single ownership and order.                                       *)
(***************************************************************************)
\* a handled variable entry met with the cursor set lengthens exactly one
\* list of the table, by one element at its end
OwnershipStep ==
    (/\ walked' # walked
     /\ IsVar(Last(walked'))
     /\ status' = "running"
     /\ cursor # None)
        => /\ DOMAIN table' = DOMAIN table
           /\ Cardinality({k \in DOMAIN table : table'[k] # table[k]}) = 1
           /\ \A k \in DOMAIN table :
                 table'[k] # table[k]
                    => /\ Len(table'[k].variables) = Len(table[k].variables) + 1
                       /\ Front(table'[k].variables) = table[k].variables
                       /\ Last(table'[k].variables) = VarOf(encoding, Last(walked'))

\* no step changes a Variable that is in the table or its place in its list:
\* a list keeps its elements and gains at most one at the end, unless a
\* subprogram entry with its key replaces the whole record
StabilityStep ==
    \A k \in DOMAIN table :
        /\ k \in DOMAIN table'
        /\ \/ table'[k].variables = table[k].variables
           \/ /\ Len(table'[k].variables) = Len(table[k].variables) + 1
              /\ Front(table'[k].variables) = table[k].variables
           \/ /\ walked' # walked
              /\ IsSub(Last(walked'))
              /\ LinkageOf(Last(walked')) = k
              /\ table'[k].variables = <<>>

\* the lists are in encounter order: each is the sequence of the variable
\* entries that followed the last subprogram entry with its key
EncounterOrder ==
    \A i \in SubIndexes(Processed) :
        (\A j \in SubIndexes(Processed) :
            LinkageOf(Processed[j]) = LinkageOf(Processed[i]) => j <= i)
            => table[LinkageOf(Processed[i])].variables
                  = VarsAfter(encoding, Processed, i)

\* C14: a variable entry handled while a subprogram is open adds exactly one
\* Variable to the table, at the end of exactly one list; Variables in the
\* table are never changed, moved or duplicated, and every list is in the
\* order its entries were met.
C14_SingleOwnership == [][OwnershipStep /\ StabilityStep]_vars /\ []EncounterOrder

C14_Witness ==
    /\ walked = <<SubFoo, SubBar, VarX, VarY>>
    /\ status = "running"
    /\ table["foo"].variables = <<>>
    /\ table["bar"].variables = <<Variable("x", 5, Some(I64Lit(-8))), Variable("y", 0, None)>>

(***************************************************************************)
(* C15 - Pass-through entries.                                             *)
(***************************************************************************)
PassThroughStep ==
    (/\ walked' # walked
     /\ ~IsSub(Last(walked'))
     /\ ~IsVar(Last(walked')))
        => /\ table' = table
           /\ cursor' = cursor

\* C15: handling an entry that is neither a subprogram nor a variable leaves
\* the symbol table and current_subprogram as they were.
C15_PassThrough == [][PassThroughStep]_vars

C15_Witness ==
    /\ walked = <<SubFoo, VarX, BaseType>>
    /\ status = "running"
    /\ cursor = Some("foo")
    /\ table["foo"].variables = <<Variable("x", 5, Some(I64Lit(-8)))>>

(***************************************************************************)
(* C16 - Walk progress.                                                    *)
(***************************************************************************)
\* the walk under the scheduling of the program: dump_unit is a sequential
\* loop that keeps running until it returns
FairSpec == Spec /\ WF_vars(Next)

\* a step of a running walk either takes the next entry, exactly one, and
\* leaves the table that the entries taken so far stand for, in their order,
\* or it ends the walk and takes none
ProgressStep ==
    /\ status = "running"
    /\ \/ /\ Len(walked') = Len(walked) + 1
          /\ Front(walked') = walked
          /\ status' = "running" => table' = RefTable(encoding, walked')
          /\ status' # "running" => table' = RefTable(encoding, walked)
       \/ /\ walked' = walked
          /\ status' \in {"ok", "err"}
          /\ table' = table

CursorValid ==
    cursor # None
        => /\ cursor[1] \in DOMAIN table
           /\ table[cursor[1]].linkage_name = cursor[1]

\* keys are never removed, and a handled variable entry is dropped only
\* when the cursor is unset
LookupStep ==
    /\ DOMAIN table \subseteq DOMAIN table'
    /\ (/\ walked' # walked
        /\ IsVar(Last(walked'))
        /\ status' = "running")
          => (table' = table <=> cursor = None)

\* C17: whenever current_subprogram is Some(k), k is a key of the table and
\* the record under k has linkage_name k; keys are never removed, so the
\* variable handler's lookup succeeds whenever the cursor is set.
C17_CursorValidity == []CursorValid /\ [][LookupStep]_vars

C17_Witness ==
    /\ walked = <<SubFoo, SubFoo2, SubNoAttrs, VarY>>
    /\ status = "running"
    /\ cursor = Some("")
    /\ DOMAIN table = {"foo", ""}
    /\ table[""].variables = <<Variable("y", 0, None)>>

(***************************************************************************)
(* C18 - Per-entry atomicity on error.                                     *)
(***************************************************************************)
\* a step in which the handler of a subprogram or variable entry fails
FailedEntryStep ==
    /\ walked' # walked
    /\ IsSub(Last(walked')) \/ IsVar(Last(walked'))
    /\ status' \in {"err", "panic"}

AtomicStep == FailedEntryStep => (table' = table /\ cursor' = cursor)

\* C18: when the handler of a subprogram or variable entry fails part-way
\* through the attributes, the table and the cursor are what they were before
\* the entry.
C18_AtomicOnError == [][AtomicStep]_vars

C18_Witness ==
    /\ walked = <<SubFoo, VarX, SubBadType>>
    /\ status = "err"
    /\ error = "UnsupportedOffset"
    /\ cursor = Some("foo")
    /\ DOMAIN table = {"foo"}
    /\ table["foo"].variables = <<Variable("x", 5, Some(I64Lit(-8)))>>

====
